---- MODULE Spec2Model ----
(***************************************************************************)
(* vite-plugin-json: a Vite plugin that exposes a JSON configuration file  *)
(* through the virtual module `virtual:JsonConfig`.                        *)
(*                                                                         *)
(* The repository holds two implementations of the plugin factory:         *)
(*   "complete" : src/unnamed/part_000 (JsonConfigPlugin)                  *)
(*   "simple"   : src/src/main.js      (default export)                    *)
(* One plugin instance is modelled; `variant` says which factory built it. *)
(*                                                                         *)
(* Text (file contents, module payloads, assets) is a sequence of tokens;  *)
(* a path is a sequence of segments, a URL or file name a sequence of      *)
(* characters.  The empty sequence stands for undefined / null / ''.       *)
(***************************************************************************)
EXTENDS Integers, Sequences, FiniteSets, TLC

VARIABLES
    variant,        \* "none" before the factory is called, then "complete" | "simple"
    cfgPath,        \* options.path
    outputName,     \* the output name the closure holds
    command,        \* command / $command : "null" | "serve" | "build"
    root,           \* root (complete variant)
    absConfigPath,  \* absConfigPath (complete variant), <<>> is null
    jsonData,       \* the loaded configuration
    disk,           \* the file system: the state of each candidate source file
    warns,          \* number of console.warn / console.error lines of the loader
    watched,        \* files registered with addWatchFile
    emitted,        \* assets emitted (emitFile) or written (writeFileSync), in order
    pending,        \* files changed on disk whose change the watcher has not yet notified
    last,           \* the last event: hook called, its argument and what it returned
    rt              \* the application's call of the production-mode export

vars == <<variant, cfgPath, outputName, command, root, absConfigPath, jsonData,
          disk, warns, watched, emitted, pending, last, rt>>

plugin == <<variant, cfgPath, outputName, command, root, absConfigPath, jsonData,
            disk, warns, watched, emitted, pending>>

(***************************************************************************)
(* Bounds of the model.                                                    *)
(***************************************************************************)
MaxWarns == 1
MaxEmits == 1

(***************************************************************************)
(* JSON values.  A value is null or an object with number members.         *)
(***************************************************************************)
JSNull == [t |-> "null", kv |-> <<>>]
Obj(kv) == [t |-> "object", kv |-> kv]
EmptyObj == Obj(<<>>)
A1 == Obj(<< <<"a", 1>> >>)
A2 == Obj(<< <<"a", 2>> >>)
AB == Obj(<< <<"a", 1>>, <<"b", 2>> >>)

Keys == {"a", "b"}
Nums == {1, 2}
KeyTok(k) == "\"" \o k \o "\""
NumTok(n) == ToString(n)
Ws == {" ", "\n", "  "}

\* JSON.stringify(v) and JSON.stringify(v, null, 2)
RECURSIVE Members(_, _)
Members(kv, pretty) ==
    IF kv = <<>> THEN <<>>
    ELSE LET m == Head(kv)
             one == (IF pretty THEN <<"\n", "  ">> ELSE <<>>)
                    \o <<KeyTok(m[1]), ":">>
                    \o (IF pretty THEN <<" ">> ELSE <<>>)
                    \o <<NumTok(m[2])>>
         IN  one \o (IF Tail(kv) = <<>> THEN <<>> ELSE <<",">>) \o Members(Tail(kv), pretty)

Stringify(v, pretty) ==
    IF v.t = "null" THEN <<"null">>
    ELSE IF v.kv = <<>> THEN <<"{", "}">>
    ELSE <<"{">> \o Members(v.kv, pretty) \o (IF pretty THEN <<"\n">> ELSE <<>>) \o <<"}">>

\* JSON.parse(text): [ok |-> FALSE] stands for the SyntaxError it throws
ParseFail == [ok |-> FALSE, v |-> EmptyObj]
KeyOfTok(tok) == CHOOSE k \in Keys : KeyTok(k) = tok
NumOfTok(tok) == CHOOSE n \in Nums : NumTok(n) = tok
IsKeyTok(tok) == \E k \in Keys : KeyTok(k) = tok
IsNumTok(tok) == \E n \in Nums : NumTok(n) = tok

\* the member list between the braces, whitespace already skipped
RECURSIVE ParseMembers(_)
ParseMembers(toks) ==
    IF Len(toks) < 3 \/ ~IsKeyTok(toks[1]) \/ toks[2] # ":" \/ ~IsNumTok(toks[3])
    THEN [ok |-> FALSE, kv |-> <<>>]
    ELSE LET m == <<KeyOfTok(toks[1]), NumOfTok(toks[3])>>
             rest == SubSeq(toks, 4, Len(toks))
         IN  IF rest = <<>> THEN [ok |-> TRUE, kv |-> <<m>>]
             ELSE IF Head(rest) # "," THEN [ok |-> FALSE, kv |-> <<>>]
             ELSE LET r == ParseMembers(Tail(rest))
                  IN  IF r.ok THEN [ok |-> TRUE, kv |-> <<m>> \o r.kv]
                      ELSE [ok |-> FALSE, kv |-> <<>>]

JSONParse(text) ==
    LET toks == SelectSeq(text, LAMBDA c : c \notin Ws)
    IN  IF toks = <<"null">> THEN [ok |-> TRUE, v |-> JSNull]
        ELSE IF Len(toks) < 2 \/ Head(toks) # "{" \/ toks[Len(toks)] # "}" THEN ParseFail
        ELSE IF Len(toks) = 2 THEN [ok |-> TRUE, v |-> EmptyObj]
        ELSE LET r == ParseMembers(SubSeq(toks, 2, Len(toks) - 1))
             IN  IF r.ok THEN [ok |-> TRUE, v |-> Obj(r.kv)] ELSE ParseFail

\* value ?? {}
Coalesce(v) == IF v.t = "null" THEN EmptyObj ELSE v

\* value.toString(): Object.prototype.toString; a TypeError on null
ToStringThrows(v) == v.t = "null"
JsToString(v) == <<"[object Object]">>

(***************************************************************************)
(* Identifiers, paths and the file system.                                 *)
(***************************************************************************)
NUL == "<NUL>"
VIRTUAL_ID == "virtual:JsonConfig"
RESOLVED_VIRTUAL_ID == NUL \o VIRTUAL_ID
ModuleIds == {VIRTUAL_ID, RESOLVED_VIRTUAL_ID, VIRTUAL_ID \o "?v=1", "/src/main.js"}

Cwd == <<"ws">>                                   \* process.cwd()
Roots == {<<>>, <<"ws">>}                         \* resolved.root, <<>> when unset
CfgPaths == {<<>>, <<"cfg.json">>}                \* options.path, <<>> when unset
PathResolve(base, p) == base \o p                 \* path.resolve / path.join of a relative path
Files == {PathResolve(r, p) : r \in (Roots \cup {Cwd}) \ {<<>>}, p \in CfgPaths \ {<<>>}}
ChangedFiles == Files \cup {<<"ws", "main.js">>}

JsonConfigJson == <<"J","s","o","n","C","o","n","f","i","g",".","j","s","o","n">>
ConfigJson == <<"c","o","n","f","i","g",".","j","s","o","n">>
CJson == <<"c",".","j","s","o","n">>
OutputNames == {<<>>, CJson}                      \* options.outputName, <<>> when unset

Absent == [kind |-> "absent", text |-> <<>>]
Directory == [kind |-> "dir", text |-> <<>>]      \* exists, but readFileSync throws
File(text) == [kind |-> "file", text |-> text]
FileTexts == { Stringify(EmptyObj, FALSE), Stringify(A1, FALSE), Stringify(A2, TRUE),
               Stringify(JSNull, FALSE), <<"{", KeyTok("a"), ":">> }
FileStates == {Absent, Directory} \cup {File(t) : t \in FileTexts}
FileAt(d, p) == IF p \in DOMAIN d THEN d[p] ELSE Absent

existsSync(d, p) == FileAt(d, p).kind # "absent"
\* readFileSync(p, 'utf-8'): throws unless p is a regular file
ReadThrows(d, p) == FileAt(d, p).kind # "file"
ReadText(d, p) == FileAt(d, p).text

(***************************************************************************)
(* The Config Loader.  Both give the new jsonData and the number of lines  *)
(* logged by the attempt.                                                  *)
(***************************************************************************)
Loaded(v, n) == [data |-> v, warn |-> n]

\* a loader whose "file not found" branch forgets the silent flag
loadJsonWarnsWhenSilent(abs, d, silent) ==
    IF abs = <<>> THEN Loaded(EmptyObj, 0)
    ELSE IF ~existsSync(d, abs) THEN Loaded(EmptyObj, 1)
    ELSE IF ReadThrows(d, abs) \/ ~JSONParse(ReadText(d, abs)).ok
         THEN Loaded(EmptyObj, IF silent THEN 0 ELSE 1)
    ELSE Loaded(JSONParse(ReadText(d, abs)).v, 0)

\* complete variant: loadJson(silent)
loadJson(abs, d, silent) ==
    IF abs = <<>> THEN Loaded(EmptyObj, 0)
    ELSE IF ~existsSync(d, abs) THEN Loaded(EmptyObj, IF silent THEN 0 ELSE 1)
    ELSE IF ReadThrows(d, abs) \/ ~JSONParse(ReadText(d, abs)).ok
         THEN Loaded(EmptyObj, IF silent THEN 0 ELSE 1)
    ELSE Loaded(JSONParse(ReadText(d, abs)).v, 0)

\* simple variant: the load in the factory body
initialLoad(path, d) ==
    IF path = <<>> THEN Loaded(JSNull, 0)
    ELSE LET filePath == PathResolve(Cwd, path)
         IN  IF ReadThrows(d, filePath) \/ ~JSONParse(ReadText(d, filePath)).ok
             THEN Loaded(EmptyObj, 1)
             ELSE Loaded(JSONParse(ReadText(d, filePath)).v, 0)

(***************************************************************************)
(* Module bodies and hook results.                                         *)
(***************************************************************************)
NoBody == [mode |-> "none", by |-> "none", payload |-> <<>>, name |-> <<>>]
DevBody(by, payload) == [mode |-> "serve", by |-> by, payload |-> payload, name |-> <<>>]
BuildBody(by, name) == [mode |-> "build", by |-> by, payload |-> <<>>, name |-> name]

RetNull == [kind |-> "null", id |-> "", body |-> NoBody]
RetUndefined == [kind |-> "undefined", id |-> "", body |-> NoBody]
RetId(id) == [kind |-> "id", id |-> id, body |-> NoBody]
RetBody(b) == [kind |-> "body", id |-> "", body |-> b]
\* the module was invalidated in the module graph and is returned as [mod]
RetMods(id) == [kind |-> "mods", id |-> id, body |-> NoBody]

\* arg: the module id (resolveId, load), "in-graph" | "not-in-graph" (handleHotUpdate),
\*      "fs-ok" | "fs-fail" (writeBundle); file: ctx.file or the file edited
Event(hook, arg, file, ret) == [hook |-> hook, arg |-> arg, file |-> file, ret |-> ret]

\* what the development-mode body exports (complete) or passes to the callback (simple)
DevExport(body) == JSONParse(body.payload).v

\* a resolver that hands the public id back without the NUL prefix
resolveIdReturnsPublicId(id) == IF id = VIRTUAL_ID THEN RetId(VIRTUAL_ID) ELSE RetNull

\* resolveId(id), both variants
resolveIdResult(id) == IF id = VIRTUAL_ID THEN RetId(RESOLVED_VIRTUAL_ID) ELSE RetNull

\* complete variant: load(id)
loadComplete(id, cmd, data, name) ==
    IF id # RESOLVED_VIRTUAL_ID THEN RetNull
    ELSE IF cmd = "serve" THEN RetBody(DevBody("complete", Stringify(Coalesce(data), FALSE)))
    ELSE RetBody(BuildBody("complete", name))

\* simple variant: load(id)
loadSimple(id, cmd, data, name) ==
    IF id = RESOLVED_VIRTUAL_ID
    THEN IF cmd = "serve" THEN RetBody(DevBody("simple", Stringify(data, FALSE)))
         ELSE RetBody(BuildBody("simple", name))
    ELSE RetNull

Asset(name, source) == [fileName |-> name, source |-> source]

(***************************************************************************)
(* The generated production-mode module at run time: the application calls *)
(* the export of the body that load returned.                              *)
(*   env      : "browser" | "nowindow" (fetch but no window) | "nofetch"   *)
(*   base     : import.meta.env.BASE_URL, <<>> when unset                  *)
(*   requests : the URLs passed to fetch                                   *)
(*   resp     : how the fetch settled                                      *)
(*   outcome  : "resolved" | "rejected" (the promise of getConfig),        *)
(*              "threw" (a synchronous exception), "returned"              *)
(*   calls    : the values the callback was invoked with, in order         *)
(***************************************************************************)
NoResp == [kind |-> "none", ok |-> FALSE, text |-> <<>>]
Reject == [kind |-> "reject", ok |-> FALSE, text |-> <<>>]
Resp(ok, text) == [kind |-> "response", ok |-> ok, text |-> text]
BodyTexts == { Stringify(A1, FALSE), Stringify(AB, TRUE), Stringify(JSNull, FALSE),
               <<"<html>">> }
Responses == {Reject} \cup {Resp(ok, t) : ok \in BOOLEAN, t \in BodyTexts}

Envs == {"browser", "nowindow", "nofetch"}
Slash == "/"
Bases == { <<>>, <<Slash>>, <<Slash, "a", "p", "p", Slash>>, <<Slash, "a", "p", "p">>,
           <<".", Slash>>, <<Slash, "a", "p", "p", Slash, Slash>> }

SlashCJson == <<Slash>> \o CJson                  \* an output name given with a leading slash

RtIdle == [pc |-> "idle", body |-> NoBody, env |-> "none", base |-> <<>>,
           requests |-> <<>>, resp |-> NoResp, value |-> EmptyObj,
           outcome |-> "none", calls |-> <<>>, throws |-> FALSE]

\* base.replace(/\/$/, '')
StripTrailingSlash(b) ==
    IF b # <<>> /\ b[Len(b)] = Slash THEN SubSeq(b, 1, Len(b) - 1) ELSE b

\* a url that keeps the trailing slash of the base
UrlKeepsSlash(base, name) ==
    (IF base = <<>> THEN <<Slash>> ELSE base) \o <<Slash>> \o name

\* complete variant: the url of getConfig
Url(base, name) ==
    StripTrailingSlash(IF base = <<>> THEN <<Slash>> ELSE base) \o <<Slash>> \o name

\* simple variant: "./" + outputName
RelativeUrl(name) == <<".", Slash>> \o name

\* complete variant: getConfig() up to its first await
getConfigCall(body, env, base) ==
    IF env # "browser"
    THEN [RtIdle EXCEPT !.pc = "done", !.body = body, !.env = env, !.base = base,
                        !.outcome = "resolved", !.value = EmptyObj]
    ELSE [RtIdle EXCEPT !.pc = "fetching", !.body = body, !.env = env, !.base = base,
                        !.requests = <<Url(base, body.name)>>]

\* a getConfig that does not test res.ok
getConfigIgnoresStatus(r, resp) ==
    IF resp.kind = "reject"
    THEN [r EXCEPT !.pc = "done", !.resp = resp, !.outcome = "resolved", !.value = EmptyObj]
    ELSE [r EXCEPT !.pc = "reading", !.resp = resp]

\* complete variant: getConfig() after `await fetch(url)`
getConfigFetched(r, resp) ==
    IF resp.kind = "reject" \/ ~resp.ok
    THEN [r EXCEPT !.pc = "done", !.resp = resp, !.outcome = "resolved", !.value = EmptyObj]
    ELSE [r EXCEPT !.pc = "reading", !.resp = resp]

\* complete variant: getConfig() after `await res.json()`
getConfigRead(r) ==
    IF JSONParse(r.resp.text).ok
    THEN [r EXCEPT !.pc = "done", !.outcome = "resolved", !.value = JSONParse(r.resp.text).v]
    ELSE [r EXCEPT !.pc = "done", !.outcome = "resolved", !.value = EmptyObj]

\* simple variant: callback => { fetch("./<outputName>")... } up to its return
exportCall(body, env, throws) ==
    IF env = "nofetch"
    THEN [RtIdle EXCEPT !.pc = "done", !.body = body, !.env = env, !.throws = throws,
                        !.outcome = "threw"]
    ELSE [RtIdle EXCEPT !.pc = "fetching", !.body = body, !.env = env, !.throws = throws,
                        !.outcome = "returned", !.requests = <<RelativeUrl(body.name)>>]

\* simple variant: the fetch promise settles.  A rejection skips both `then`
\* handlers and reaches `.catch(() => callback({}))`; a response of any status
\* has response.json() called on it, and the callback waits for that promise
exportFetched(r, resp) ==
    IF resp.kind = "reject"
    THEN [r EXCEPT !.pc = "done", !.resp = resp, !.calls = <<EmptyObj>>]
    ELSE [r EXCEPT !.pc = "reading", !.resp = resp]

\* simple variant: the promise of response.json() settles.  A body that does
\* not parse skips `.then(callback)` and reaches `.catch(() => callback({}))`;
\* a parsed body is passed to the callback, and when the callback throws the
\* promise of `.then(callback)` rejects and the catch handler is still to run
exportRead(r) ==
    IF ~JSONParse(r.resp.text).ok
    THEN [r EXCEPT !.pc = "done", !.calls = <<EmptyObj>>]
    ELSE IF r.throws
    THEN [r EXCEPT !.pc = "catching", !.calls = <<JSONParse(r.resp.text).v>>]
    ELSE [r EXCEPT !.pc = "done", !.calls = <<JSONParse(r.resp.text).v>>]

\* simple variant: the reaction of `.catch(() => callback({}))` to the
\* exception of the callback: the callback is invoked again, with {}
exportCaught(r) ==
    [r EXCEPT !.pc = "done", !.calls = Append(r.calls, EmptyObj)]

(***************************************************************************)
(* Initial state: the plugin module is imported, the factory not yet       *)
(* called; the file system is in any state.                                *)
(***************************************************************************)
Init ==
    /\ variant = "none"
    /\ cfgPath = <<>>
    /\ outputName = <<>>
    /\ command = "null"
    /\ root = Cwd
    /\ absConfigPath = <<>>
    /\ jsonData = EmptyObj
    /\ disk \in [Files -> FileStates]
    /\ warns = 0
    /\ watched = {}
    /\ emitted = <<>>
    /\ pending = {}
    /\ last = Event("import", "", <<>>, RetUndefined)
    /\ rt = RtIdle

(***************************************************************************)
(* The factories.                                                          *)
(***************************************************************************)
\* complete variant: JsonConfigPlugin(options)
JsonConfigPlugin(path, name) ==
    /\ variant = "none"
    /\ variant' = "complete"
    /\ cfgPath' = path
    /\ outputName' = IF name = <<>> THEN JsonConfigJson ELSE name
    /\ command' = "null"
    /\ root' = Cwd
    /\ jsonData' = EmptyObj
    /\ absConfigPath' = <<>>
    /\ last' = Event("factory", "", <<>>, RetUndefined)
    /\ UNCHANGED <<disk, warns, watched, emitted, pending, rt>>

\* simple variant: the default export of main.js
VitePluginJson(path, name) ==
    /\ variant = "none"
    /\ variant' = "simple"
    /\ cfgPath' = path
    /\ command' = "null"
    /\ jsonData' = initialLoad(path, disk).data
    /\ warns' = warns + initialLoad(path, disk).warn
    /\ outputName' = IF name = <<>> THEN ConfigJson ELSE name
    /\ last' = Event("factory", "", <<>>, RetUndefined)
    /\ UNCHANGED <<root, absConfigPath, disk, watched, emitted, pending, rt>>

(***************************************************************************)
(* Hooks of the complete variant.                                          *)
(***************************************************************************)
configResolved(cmd, r) ==
    /\ variant = "complete"
    /\ LET newRoot == IF r # <<>> THEN r ELSE root
           abs == PathResolve(newRoot, cfgPath)
       IN  /\ command' = cmd
           /\ root' = newRoot
           /\ IF cfgPath # <<>>
              THEN /\ absConfigPath' = abs
                   /\ jsonData' = loadJson(abs, disk, TRUE).data
                   /\ warns + loadJson(abs, disk, TRUE).warn <= MaxWarns
                   /\ warns' = warns + loadJson(abs, disk, TRUE).warn
              ELSE /\ jsonData' = EmptyObj
                   /\ UNCHANGED <<absConfigPath, warns>>
    /\ last' = Event("configResolved", "", <<>>, RetUndefined)
    /\ UNCHANGED <<variant, cfgPath, outputName, disk, watched, emitted, pending, rt>>

buildStart ==
    /\ variant = "complete"
    /\ watched' = IF absConfigPath # <<>> THEN watched \cup {absConfigPath} ELSE watched
    /\ last' = Event("buildStart", "", <<>>, RetUndefined)
    /\ UNCHANGED <<variant, cfgPath, outputName, command, root, absConfigPath, jsonData,
                   disk, warns, emitted, pending, rt>>

generateBundle ==
    /\ variant = "complete"
    /\ IF command # "build"
       THEN UNCHANGED <<jsonData, warns, emitted>>
       ELSE LET l == IF absConfigPath # <<>> THEN loadJson(absConfigPath, disk, TRUE)
                     ELSE Loaded(jsonData, 0)
            IN  /\ Len(emitted) < MaxEmits
                /\ warns + l.warn <= MaxWarns
                /\ jsonData' = l.data
                /\ warns' = warns + l.warn
                /\ emitted' = Append(emitted,
                                 Asset(outputName, Stringify(Coalesce(l.data), TRUE)))
    /\ last' = Event("generateBundle", "", <<>>, RetUndefined)
    /\ UNCHANGED <<variant, cfgPath, outputName, command, root, absConfigPath,
                   disk, watched, pending, rt>>

\* a guard that forgets to compare ctx.file with the watched path
hotUpdateAnyFile(abs, file) == abs # <<>>

\* the guard of handleHotUpdate
hotUpdateMatches(abs, file) == abs # <<>> /\ file = abs

\* ctx.file = file; inGraph: moduleGraph.getModuleById(RESOLVED_VIRTUAL_ID) finds the module
handleHotUpdate(file, inGraph) ==
    /\ variant = "complete"
    /\ LET graph == IF inGraph THEN "in-graph" ELSE "not-in-graph"
       IN  IF ~hotUpdateMatches(absConfigPath, file)
           THEN /\ last' = Event("handleHotUpdate", graph, file, RetUndefined)
                /\ UNCHANGED <<jsonData, warns>>
           ELSE LET l == loadJson(absConfigPath, disk, FALSE)
                IN  /\ warns + l.warn <= MaxWarns
                    /\ jsonData' = l.data
                    /\ warns' = warns + l.warn
                    /\ last' = Event("handleHotUpdate", graph, file,
                                     IF inGraph THEN RetMods(RESOLVED_VIRTUAL_ID)
                                     ELSE RetUndefined)
    /\ pending' = pending \ {file}
    /\ UNCHANGED <<variant, cfgPath, outputName, command, root, absConfigPath,
                   disk, watched, emitted, rt>>

(***************************************************************************)
(* Hooks of the simple variant.                                            *)
(***************************************************************************)
config(cmd) ==
    /\ variant = "simple"
    /\ command' = cmd
    /\ last' = Event("config", "", <<>>, RetUndefined)
    /\ UNCHANGED <<variant, cfgPath, outputName, root, absConfigPath, jsonData,
                   disk, warns, watched, emitted, pending, rt>>

\* writes: whether mkdirSync / writeFileSync succeed
writeBundle(writes) ==
    /\ variant = "simple"
    /\ IF command # "build" \/ ToStringThrows(jsonData) \/ ~writes
       THEN UNCHANGED emitted
       ELSE /\ Len(emitted) < MaxEmits
            /\ emitted' = Append(emitted, Asset(outputName, JsToString(jsonData)))
    /\ last' = Event("writeBundle", IF writes THEN "fs-ok" ELSE "fs-fail", <<>>, RetUndefined)
    /\ UNCHANGED <<variant, cfgPath, outputName, command, root, absConfigPath, jsonData,
                   disk, warns, watched, pending, rt>>

\* the watcher reports a change of `file`: the simple variant registers no
\* handleHotUpdate hook, so no code of the plugin runs
fileChangeUnhandled(file) ==
    /\ variant = "simple"
    /\ pending' = pending \ {file}
    /\ last' = Event("fileChange", "", file, RetUndefined)
    /\ UNCHANGED <<variant, cfgPath, outputName, command, root, absConfigPath, jsonData,
                   disk, warns, watched, emitted, rt>>

(***************************************************************************)
(* Hooks of both variants.                                                 *)
(***************************************************************************)
resolveId(id) ==
    /\ variant # "none"
    /\ last' = Event("resolveId", id, <<>>, resolveIdResult(id))
    /\ UNCHANGED <<plugin, rt>>

load(id) ==
    /\ variant # "none"
    /\ last' = Event("load", id, <<>>,
                     IF variant = "complete"
                     THEN loadComplete(id, command, jsonData, outputName)
                     ELSE loadSimple(id, command, jsonData, outputName))
    /\ UNCHANGED <<plugin, rt>>

(***************************************************************************)
(* The environment: the source file is edited, removed or replaced.        *)
(***************************************************************************)
EditFile(f, st) ==
    /\ disk[f] # st
    /\ disk' = [disk EXCEPT ![f] = st]
    /\ pending' = pending \cup {f}
    /\ last' = Event("edit", "", f, RetUndefined)
    /\ UNCHANGED <<variant, cfgPath, outputName, command, root, absConfigPath, jsonData,
                   warns, watched, emitted, rt>>

Next ==
    \/ \E path \in CfgPaths, name \in OutputNames : JsonConfigPlugin(path, name)
    \/ \E path \in CfgPaths, name \in OutputNames : VitePluginJson(path, name)
    \/ \E cmd \in {"serve", "build"}, r \in Roots : configResolved(cmd, r)
    \/ buildStart
    \/ generateBundle
    \/ \E file \in ChangedFiles, inGraph \in BOOLEAN : handleHotUpdate(file, inGraph)
    \/ \E cmd \in {"serve", "build"} : config(cmd)
    \/ \E writes \in BOOLEAN : writeBundle(writes)
    \/ \E file \in ChangedFiles : fileChangeUnhandled(file)
    \/ \E id \in ModuleIds : resolveId(id)
    \/ \E id \in ModuleIds : load(id)
    \/ \E f \in Files, st \in FileStates : EditFile(f, st)

Spec == Init /\ [][Next]_vars

(***************************************************************************)
(* The application at run time, after a production-mode body was loaded.   *)
(***************************************************************************)
Served == IF last.hook = "load" /\ last.ret.kind = "body" THEN last.ret.body ELSE NoBody

getConfig(env, base) ==
    /\ Served.mode = "build" /\ Served.by = "complete"
    /\ rt.pc = "idle"
    /\ rt' = getConfigCall(Served, env, base)
    /\ UNCHANGED <<plugin, last>>

fetchSettles(resp) ==
    /\ rt.pc = "fetching"
    /\ rt' = IF rt.body.by = "complete" THEN getConfigFetched(rt, resp)
             ELSE exportFetched(rt, resp)
    /\ UNCHANGED <<plugin, last>>

jsonSettles ==
    /\ rt.pc = "reading"
    /\ rt' = IF rt.body.by = "complete" THEN getConfigRead(rt) ELSE exportRead(rt)
    /\ UNCHANGED <<plugin, last>>

catchRuns ==
    /\ rt.pc = "catching"
    /\ rt' = exportCaught(rt)
    /\ UNCHANGED <<plugin, last>>

defaultExport(env, throws) ==
    /\ Served.mode = "build" /\ Served.by = "simple"
    /\ rt.pc = "idle"
    /\ rt' = exportCall(Served, env, throws)
    /\ UNCHANGED <<plugin, last>>

\* the call is over; the application may call again
callEnds ==
    /\ rt.pc = "done"
    /\ rt' = RtIdle
    /\ UNCHANGED <<plugin, last>>

NextRuntime ==
    \/ \E path \in CfgPaths, name \in OutputNames \cup {SlashCJson} :
           JsonConfigPlugin(path, name)
    \/ \E path \in CfgPaths, name \in OutputNames \cup {SlashCJson} :
           VitePluginJson(path, name)
    \/ \E cmd \in {"serve", "build"}, r \in Roots : configResolved(cmd, r)
    \/ \E cmd \in {"serve", "build"} : config(cmd)
    \/ \E id \in ModuleIds : load(id)
    \/ \E env \in Envs, base \in Bases : getConfig(env, base)
    \/ \E env \in Envs, throws \in BOOLEAN : defaultExport(env, throws)
    \/ \E resp \in Responses : fetchSettles(resp)
    \/ jsonSettles
    \/ catchRuns
    \/ callEnds

SpecRuntime == Init /\ [][NextRuntime]_vars

(***************************************************************************)
(* Properties.                                                             *)
(***************************************************************************)
IsLoad == last.hook = "load" /\ last.ret.kind = "body"
IsDevLoad == IsLoad /\ last.ret.body.mode = "serve"

\* the source file the instance reads, and whether it holds valid JSON
SourceFile == IF variant = "complete" THEN absConfigPath ELSE PathResolve(Cwd, cfgPath)
BadSource == FileAt(disk, SourceFile).kind # "file"
                 \/ ~JSONParse(FileAt(disk, SourceFile).text).ok
SourceValue == JSONParse(FileAt(disk, SourceFile).text).v

\* C1: an instance built without `path` always holds the configuration {}:
\* a development-mode body exports {} and every asset of a build contains {}.
C1_NoPathAlwaysEmpty ==
    (variant # "none" /\ cfgPath = <<>>) =>
        /\ jsonData = EmptyObj
        /\ IsDevLoad => DevExport(last.ret.body) = EmptyObj
        /\ \A i \in DOMAIN emitted :
               /\ JSONParse(emitted[i].source).ok
               /\ JSONParse(emitted[i].source).v = EmptyObj

\* C7: resolveId returns the internal id exactly for the public id and null
\* otherwise; load returns a body exactly for the internal id and null
\* otherwise; the public id is never a resolved id and never loads a body.
C7_ExactIdMatch ==
    /\ last.hook = "resolveId" =>
           /\ last.arg = VIRTUAL_ID => last.ret = RetId(RESOLVED_VIRTUAL_ID)
           /\ last.arg # VIRTUAL_ID => last.ret = RetNull
    /\ last.hook = "load" =>
           /\ last.arg = RESOLVED_VIRTUAL_ID => last.ret.kind = "body"
           /\ last.arg # RESOLVED_VIRTUAL_ID => last.ret = RetNull
    /\ last.ret.kind = "id" => last.ret.id # VIRTUAL_ID
    /\ RESOLVED_VIRTUAL_ID # VIRTUAL_ID

\* the public id was offered to load and declined, in either variant
C7_Witness ==
    /\ last.hook = "load" /\ last.arg = VIRTUAL_ID /\ last.ret = RetNull
    /\ command = "serve"

\* a load attempt is the step just taken; silent attempts log nothing
SilentAttempt ==
    \/ last.hook = "configResolved" /\ cfgPath # <<>>
    \/ last.hook = "generateBundle" /\ command = "build" /\ absConfigPath # <<>>
LoudAttempt ==
    \/ last.hook = "handleHotUpdate" /\ absConfigPath # <<>> /\ last.file = absConfigPath
    \/ last.hook = "factory" /\ variant = "simple" /\ cfgPath # <<>>

\* C2: a load attempt that finds the source file absent, unreadable or not
\* valid JSON completes with the configuration {} whatever it was before,
\* and logs one line if the attempt is not silent and none if it is.
C2_FailedLoadFallsBack ==
    [][ /\ (SilentAttempt' /\ BadSource') =>
              (jsonData' = EmptyObj /\ warns' = warns)
        /\ (LoudAttempt' /\ BadSource') =>
              (jsonData' = EmptyObj /\ warns' = warns + 1) ]_vars

\* a file-change reload found the file unparsable, fell back and warned once
C2_Witness ==
    /\ last.hook = "handleHotUpdate" /\ last.file = absConfigPath
    /\ FileAt(disk, absConfigPath).kind = "file" /\ BadSource
    /\ jsonData = EmptyObj /\ warns = 1

\* C3: in a development session every load of the virtual module exports the
\* configuration held at that moment, and once the change of the valid source
\* file has been notified that configuration is the file's current content.
C3_DevExportIsCurrent ==
    IsDevLoad =>
        /\ DevExport(last.ret.body) = jsonData
        /\ (cfgPath # <<>> /\ ~BadSource /\ SourceFile \notin pending) =>
               DevExport(last.ret.body) = SourceValue

\* an emission step: the emit hook ran in a production build and the file
\* system accepted the write
EmitStep ==
    /\ command = "build"
    /\ \/ last'.hook = "generateBundle"
       \/ last'.hook = "writeBundle" /\ last'.arg = "fs-ok"

\* C4: in a production build with a valid JSON source file the emitted asset,
\* parsed, equals the parsed content of the file at emission time.
C4_AssetEqualsSource ==
    [][ (EmitStep /\ cfgPath # <<>> /\ ~BadSource) =>
            /\ Len(emitted') = Len(emitted) + 1
            /\ JSONParse(emitted'[Len(emitted')].source).ok
            /\ JSONParse(emitted'[Len(emitted')].source).v = SourceValue ]_vars

\* C8: the emit hook emits exactly one asset, named outputName, when the
\* captured mode is a production build, and nothing in any other mode.
C8_EmitOncePerBuild ==
    [][ /\ EmitStep =>
              /\ Len(emitted') = Len(emitted) + 1
              /\ SubSeq(emitted', 1, Len(emitted)) = emitted
              /\ emitted'[Len(emitted')].fileName = outputName
        /\ command # "build" => emitted' = emitted ]_vars

\* C9: on a file-change notification the virtual module is invalidated and
\* returned exactly when a path is configured, the changed file is the
\* resolved source path and the module is in the module graph; on any other
\* file, or with no path, nothing is loaded, invalidated or returned.
C9_HotUpdateOnlyOnMatch ==
    [][ last'.hook = "handleHotUpdate" =>
            LET match == cfgPath # <<>> /\ absConfigPath # <<>> /\ last'.file = absConfigPath
            IN  /\ last'.ret = RetMods(RESOLVED_VIRTUAL_ID)
                       <=> (match /\ last'.arg = "in-graph")
                /\ last'.ret # RetMods(RESOLVED_VIRTUAL_ID) => last'.ret = RetUndefined
                /\ ~match => (jsonData' = jsonData /\ warns' = warns
                              /\ last'.ret = RetUndefined) ]_vars

\* the edited source file was notified while the module was in the graph: the
\* new content was loaded and the module invalidated and returned
C9_Witness ==
    /\ last.hook = "handleHotUpdate" /\ last.arg = "in-graph"
    /\ absConfigPath # <<>> /\ last.file = absConfigPath
    /\ last.ret = RetMods(RESOLVED_VIRTUAL_ID)
    /\ ~BadSource /\ jsonData = A2 /\ SourceValue = A2

\* the calls of the complete variant's getConfig
IsGetConfig == rt.body.by = "complete" /\ rt.pc # "idle"
FetchFailed == rt.resp.kind = "reject" \/ ~rt.resp.ok \/ ~JSONParse(rt.resp.text).ok

\* C5: getConfig never rejects; without window or fetch it resolves to {} and
\* issues no request; it resolves to {} when the fetch rejects, the status is
\* not a success or the body does not parse, and to the parsed body otherwise.
C5_GetConfigAlwaysResolves ==
    IsGetConfig =>
        /\ rt.outcome \in {"none", "resolved"}
        /\ rt.pc = "done" => rt.outcome = "resolved"
        /\ rt.env # "browser" => (rt.pc = "done" /\ rt.value = EmptyObj /\ rt.requests = <<>>)
        /\ (rt.env = "browser" /\ rt.pc = "done") =>
               /\ Len(rt.requests) = 1
               /\ FetchFailed => rt.value = EmptyObj
               /\ ~FetchFailed => rt.value = JSONParse(rt.resp.text).v

\* a 404 whose body is valid JSON resolved to {}
C5_Witness ==
    /\ IsGetConfig /\ rt.pc = "done" /\ rt.env = "browser"
    /\ rt.resp.kind = "response" /\ ~rt.resp.ok /\ JSONParse(rt.resp.text).ok
    /\ rt.value = EmptyObj /\ rt.outcome = "resolved"

RECURSIVE WithoutTrailingSlashes(_)
WithoutTrailingSlashes(b) ==
    IF b # <<>> /\ b[Len(b)] = Slash THEN WithoutTrailingSlashes(SubSeq(b, 1, Len(b) - 1))
    ELSE b
EndsInSlashes(b) == Len(b) >= 2 /\ b[Len(b)] = Slash /\ b[Len(b) - 1] = Slash
StartsWithSlash(n) == n # <<>> /\ n[1] = Slash
BaseOrRoot(b) == IF b = <<>> THEN <<Slash>> ELSE b
IsFetching == rt.body.by = "complete" /\ rt.requests # <<>>
AppBase == <<Slash, "a", "p", "p", Slash>>

\* url is base and name with exactly one slash between them
OneSlashBetween(url, base, name) ==
    /\ url = WithoutTrailingSlashes(BaseOrRoot(base)) \o <<Slash>> \o name
    /\ ~StartsWithSlash(name)

\* C6 as stated: for every base and output name the URL fetched is the base
\* and the name with exactly one slash between them.
C6_OneSlashForEveryBase ==
    IsFetching => OneSlashBetween(rt.requests[1], rt.base, rt.body.name)

\* C6 amended: the URL is the base less one trailing slash, a slash and the
\* name; exactly one slash separates them when the base ends in at most one
\* slash and the name does not begin with one.
C6_OneSlashUnlessDoubled ==
    IsFetching =>
        /\ (~EndsInSlashes(rt.base) /\ ~StartsWithSlash(rt.body.name)) =>
               OneSlashBetween(rt.requests[1], rt.base, rt.body.name)
        /\ EndsInSlashes(rt.base) =>
               rt.requests[1] = SubSeq(rt.base, 1, Len(rt.base) - 1) \o <<Slash>> \o rt.body.name
        /\ (rt.base = AppBase /\ rt.body.name = JsonConfigJson) =>
               rt.requests[1] = AppBase \o JsonConfigJson

\* base /app/ and the default output name: /app/JsonConfig.json was fetched
C6_Witness ==
    /\ IsFetching /\ rt.base = AppBase /\ rt.body.name = JsonConfigJson
    /\ rt.requests = <<AppBase \o JsonConfigJson>>

\* C10: a call of the simple variant's production export invokes the callback
\* exactly once, with the parsed body on success and with {} on any failure,
\* and never twice.
C10_CallbackExactlyOnce ==
    (rt.body.by = "simple" /\ rt.pc # "idle") =>
        /\ Len(rt.calls) <= 1
        /\ rt.pc = "done" =>
               /\ Len(rt.calls) = 1
               /\ FetchFailed => rt.calls[1] = EmptyObj
               /\ ~FetchFailed => rt.calls[1] = JSONParse(rt.resp.text).v

====
